---- MODULE Spec2Model ----
(***************************************************************************)
(* Model of vizdiff.py: a side-by-side, position-by-position comparison of *)
(* two text files with character-level highlighting.                       *)
(*                                                                         *)
(* Text is a sequence of characters; a character is a one-character TLA+   *)
(* string, except that "ESC" stands for the single character \033 and "LF" *)
(* for the newline character.  Indices into text follow Python: 0-based,   *)
(* half-open ranges.                                                       *)
(*                                                                         *)
(* Three specifications:                                                   *)
(*   Spec      one run of main()                                           *)
(*   SpecHL    one call of highlight_char_differences on bounded strings   *)
(*   SpecWrap  one call of wrap_line on bounded strings and widths         *)
(***************************************************************************)
EXTENDS Integers, Sequences, FiniteSets, TLC

VARIABLES pc, width, no_color, fs, lines1, lines2, max_lines, col_width,
          diff_count, i, out, exit_code, exc, aligned, call, ret

mainVars == <<pc, width, no_color, fs, lines1, lines2, max_lines, col_width,
              diff_count, i, out, exit_code, exc, aligned>>
fnVars == <<call, ret>>
vars == <<pc, width, no_color, fs, lines1, lines2, max_lines, col_width,
          diff_count, i, out, exit_code, exc, aligned, call, ret>>

(***************************************************************************)
(* Bounds                                                                  *)
(***************************************************************************)
\* longest string handed to highlight_char_differences in SpecHL
MaxStrLen == 3
\* longest raw string handed to wrap_line in SpecWrap
MaxRawLen == 4
\* most spans of a rendered (styled) string handed to wrap_line in SpecWrap
MaxSpans == 2
\* largest column width handed to wrap_line in SpecWrap
MaxWrapWidth == 3
\* most lines of an input file in Spec
MaxLines == 2

(***************************************************************************)
(* Generic text helpers                                                    *)
(***************************************************************************)
Max(x, y) == IF x >= y THEN x ELSE y

\* Python slice s[lo:hi] for 0 <= lo, hi (clipped at len(s))
Slice(s, lo, hi) ==
    LET h == IF hi > Len(s) THEN Len(s) ELSE hi
    IN IF lo >= h THEN <<>> ELSE SubSeq(s, lo + 1, h)

\* Python s[k], 0-based
At(s, k) == s[k + 1]

\* c * n
Repeat(c, n) == [k \in 1..n |-> c]

RECURSIVE Concat(_)
\* ''.join(parts)
Concat(parts) ==
    IF parts = <<>> THEN <<>> ELSE Head(parts) \o Concat(Tail(parts))

\* all sequences over S of length 0..n
SeqsUpTo(S, n) == UNION {[1..k -> S] : k \in 0..n}

\* format spec '<w': left-justify, pad with spaces to len w (len counts every character)
LJust(s, w) == IF Len(s) >= w THEN s ELSE s \o Repeat(" ", w - Len(s))

\* format spec '>w'
RJust(s, w) == IF Len(s) >= w THEN s ELSE Repeat(" ", w - Len(s)) \o s

DigitChar == <<"0", "1", "2", "3", "4", "5", "6", "7", "8", "9">>

RECURSIVE Decimal(_)
\* str(n) for n >= 0
Decimal(n) ==
    IF n < 10 THEN <<DigitChar[n + 1]>>
    ELSE Decimal(n \div 10) \o <<DigitChar[(n % 10) + 1]>>

\* format spec '4d'
Format4d(n) == RJust(Decimal(n), 4)

\* rstrip with the strip left out: the line keeps its terminator
rstrip_none(s) == s

RECURSIVE rstrip(_)
\* str.rstrip('\n\r')
rstrip(s) ==
    IF s # <<>> /\ s[Len(s)] \in {"LF", "CR"}
    THEN rstrip(SubSeq(s, 1, Len(s) - 1))
    ELSE s

(***************************************************************************)
(* class Colors.  The class defines exactly these attributes; reading any  *)
(* other attribute raises AttributeError.                                  *)
(***************************************************************************)
Colors ==
    [RED       |-> <<"ESC", "[", "9", "1", "m">>,
     GREEN     |-> <<"ESC", "[", "9", "2", "m">>,
     YELLOW    |-> <<"ESC", "[", "9", "3", "m">>,
     BLUE      |-> <<"ESC", "[", "9", "4", "m">>,
     MAGENTA   |-> <<"ESC", "[", "9", "5", "m">>,
     CYAN      |-> <<"ESC", "[", "9", "6", "m">>,
     WHITE     |-> <<"ESC", "[", "9", "7", "m">>,
     BOLD      |-> <<"ESC", "[", "1", "m">>,
     UNDERLINE |-> <<"ESC", "[", "4", "m">>,
     END       |-> <<"ESC", "[", "0", "m">>,
     BG_RED    |-> <<"ESC", "[", "4", "1", "m">>,
     BG_GREEN  |-> <<"ESC", "[", "4", "2", "m">>,
     BG_YELLOW |-> <<"ESC", "[", "4", "3", "m">>]

\* whether the attribute lookup Colors.<name> succeeds
HasColor(name) == name \in DOMAIN Colors

(***************************************************************************)
(* difflib.SequenceMatcher(None, a, b) as used at line 45: no junk         *)
(* predicate, and the automatic junk heuristic only acts on strings of 200 *)
(* or more characters, which lie outside the bounds of this model.         *)
(***************************************************************************)
RECURSIVE MatchLen(_, _, _, _, _, _)
\* length of the common run of a[ai:ahi] and b[bj:bhi] starting at ai, bj
MatchLen(a, b, ai, ahi, bj, bhi) ==
    IF ai < ahi /\ bj < bhi /\ At(a, ai) = At(b, bj)
    THEN 1 + MatchLen(a, b, ai + 1, ahi, bj + 1, bhi)
    ELSE 0

\* find_longest_match(alo, ahi, blo, bhi): the longest matching block, of
\* those the one starting earliest in a, of those the one starting earliest
\* in b; (alo, blo, 0) when nothing matches
find_longest_match(a, b, alo, ahi, blo, bhi) ==
    LET cand == {<<ai, bj>> \in (alo..(ahi - 1)) \X (blo..(bhi - 1)) :
                    At(a, ai) = At(b, bj)}
        len(c) == MatchLen(a, b, c[1], ahi, c[2], bhi)
        best == CHOOSE c \in cand :
                    \A d \in cand :
                        \/ len(c) > len(d)
                        \/ /\ len(c) = len(d)
                           /\ \/ c[1] < d[1]
                              \/ c[1] = d[1] /\ c[2] <= d[2]
    IN IF cand = {} THEN <<alo, blo, 0>>
       ELSE <<best[1], best[2], len(best)>>

RECURSIVE RawBlocks(_, _, _, _, _, _)
\* the matching blocks found by the work-queue loop of get_matching_blocks,
\* in sorted order
RawBlocks(a, b, alo, ahi, blo, bhi) ==
    LET x == find_longest_match(a, b, alo, ahi, blo, bhi)
        bi == x[1]
        bj == x[2]
        k == x[3]
    IN IF k = 0 THEN <<>>
       ELSE (IF alo < bi /\ blo < bj
             THEN RawBlocks(a, b, alo, bi, blo, bj) ELSE <<>>)
            \o <<x>>
            \o (IF bi + k < ahi /\ bj + k < bhi
                THEN RawBlocks(a, b, bi + k, ahi, bj + k, bhi) ELSE <<>>)

RECURSIVE MergeAdjacent(_, _)
\* the second loop of get_matching_blocks: collapse adjacent blocks
MergeAdjacent(blocks, cur) ==
    IF blocks = <<>>
    THEN (IF cur[3] # 0 THEN <<cur>> ELSE <<>>)
    ELSE LET nxt == Head(blocks)
         IN IF cur[1] + cur[3] = nxt[1] /\ cur[2] + cur[3] = nxt[2]
            THEN MergeAdjacent(Tail(blocks), <<cur[1], cur[2], cur[3] + nxt[3]>>)
            ELSE (IF cur[3] # 0 THEN <<cur>> ELSE <<>>)
                 \o MergeAdjacent(Tail(blocks), nxt)

\* get_matching_blocks(): merged blocks followed by the sentinel (la, lb, 0)
get_matching_blocks(a, b) ==
    MergeAdjacent(RawBlocks(a, b, 0, Len(a), 0, Len(b)), <<0, 0, 0>>)
    \o << <<Len(a), Len(b), 0>> >>

RECURSIVE OpcodesFrom(_, _, _)
\* the loop of get_opcodes over the matching blocks, from position (ci, cj)
OpcodesFrom(blocks, ci, cj) ==
    IF blocks = <<>> THEN <<>>
    ELSE LET blk == Head(blocks)
             ai == blk[1]
             bj == blk[2]
             size == blk[3]
             tag == IF ci < ai /\ cj < bj THEN "replace"
                    ELSE IF ci < ai THEN "delete"
                    ELSE IF cj < bj THEN "insert"
                    ELSE ""
         IN (IF tag # ""
             THEN << [tag |-> tag, i1 |-> ci, i2 |-> ai, j1 |-> cj, j2 |-> bj] >>
             ELSE <<>>)
            \o (IF size # 0
                THEN << [tag |-> "equal", i1 |-> ai, i2 |-> ai + size,
                         j1 |-> bj, j2 |-> bj + size] >>
                ELSE <<>>)
            \o OpcodesFrom(Tail(blocks), ai + size, bj + size)

\* matcher.get_opcodes()
get_opcodes(a, b) == OpcodesFrom(get_matching_blocks(a, b), 0, 0)

(***************************************************************************)
(* highlight_char_differences                                              *)
(***************************************************************************)
\* the value of one opcode's pair of appended pieces; the replace branch
\* evaluates Colors.BG_YELLOW, Colors.BLACK and Colors.END
RECURSIVE HighlightLoop(_, _, _, _, _)
HighlightLoop(ops, line1, line2, result1, result2) ==
    IF ops = <<>>
    THEN [raised |-> "", out1 |-> Concat(result1), out2 |-> Concat(result2)]
    ELSE LET op == Head(ops)
             l == Slice(line1, op.i1, op.i2)
             r == Slice(line2, op.j1, op.j2)
         IN CASE op.tag = "equal" ->
                   HighlightLoop(Tail(ops), line1, line2,
                                 Append(result1, l), Append(result2, r))
              [] op.tag = "delete" ->
                   HighlightLoop(Tail(ops), line1, line2,
                                 Append(result1, l), Append(result2, <<>>))
              [] op.tag = "insert" ->
                   HighlightLoop(Tail(ops), line1, line2,
                                 Append(result1, <<>>), Append(result2, r))
              [] op.tag = "replace" ->
                   IF HasColor("BG_YELLOW") /\ HasColor("BLACK") /\ HasColor("END")
                   THEN HighlightLoop(Tail(ops), line1, line2,
                            Append(result1, Colors["BG_YELLOW"] \o Colors["BLACK"]
                                            \o l \o Colors["END"]),
                            Append(result2, Colors["BG_YELLOW"] \o Colors["BLACK"]
                                            \o r \o Colors["END"]))
                   ELSE [raised |-> "AttributeError", out1 |-> <<>>, out2 |-> <<>>]

\* highlight_char_differences(line1, line2): raised = "" and the returned
\* pair, or the exception raised
highlight_char_differences(line1, line2) ==
    HighlightLoop(get_opcodes(line1, line2), line1, line2, <<>>, <<>>)

(***************************************************************************)
(* wrap_line                                                               *)
(***************************************************************************)
AnsiTerminators == {"m", "H", "J", "K"}

RECURSIVE AnsiScan(_, _)
\* the inner while loop: advance end to the terminator or to len(line)
AnsiScan(line, end) ==
    IF end < Len(line) /\ At(line, end) \notin AnsiTerminators
    THEN AnsiScan(line, end + 1)
    ELSE end

\* WrapFull with the comparison off by one
WrapFullOffByOne(visible_length, w) == visible_length > w

\* the visible-length test that starts a new physical line
WrapFull(visible_length, w) == visible_length >= w

RECURSIVE WrapLoop(_, _, _, _, _, _)
\* the outer while loop and the final flush
WrapLoop(line, w, k, current_line, visible_length, wrapped_lines) ==
    IF k < Len(line)
    THEN IF At(line, k) = "ESC"
         THEN LET e0 == AnsiScan(line, k + 1)
                  end == IF e0 < Len(line) THEN e0 + 1 ELSE e0
              IN WrapLoop(line, w, end, current_line \o Slice(line, k, end),
                          visible_length, wrapped_lines)
         ELSE IF WrapFull(visible_length, w)
              THEN WrapLoop(line, w, k + 1, <<At(line, k)>>, 1,
                            Append(wrapped_lines, current_line))
              ELSE WrapLoop(line, w, k + 1, Append(current_line, At(line, k)),
                            visible_length + 1, wrapped_lines)
    ELSE IF current_line # <<>> \/ wrapped_lines = <<>>
         THEN Append(wrapped_lines, current_line)
         ELSE wrapped_lines

\* wrap_line with the scan started one character late
wrap_line_skipfirst(line, w) ==
    IF line = <<>> THEN << <<>> >>
    ELSE WrapLoop(line, w, 1, <<>>, 0, <<>>)

\* wrap_line(line, width)
wrap_line(line, w) ==
    IF line = <<>> THEN << <<>> >>
    ELSE WrapLoop(line, w, 0, <<>>, 0, <<>>)

(***************************************************************************)
(* main() and compare_files(): program state                               *)
(*                                                                         *)
(*   pc         position of the run: "main", "read1", "read2", "header",   *)
(*              "loop", "legend", "exit" ("idle" when no run is modelled)  *)
(*   width, no_color   the parsed arguments                                *)
(*   fs         the file system: for argument p, a missing file, a file    *)
(*              that is not UTF-8, or the list f.readlines() returns       *)
(*   out        standard output, one entry per printed line                *)
(*   exit_code  -1 while running, then the process exit status             *)
(*   exc        the uncaught exception that ended the run, or ""           *)
(*   aligned    line positions at which highlight_char_differences ran     *)
(*                                                                         *)
(* A fixed message literal that is never measured, padded or wrapped is    *)
(* kept as one token of the printed text.                                  *)
(***************************************************************************)
MinWidth == 40
ReservedChars == 7

\* the two positional arguments
file_path(p) == IF p = 1 THEN <<"f", "1">> ELSE <<"f", "2">>

Widths == {MinWidth - 1, MinWidth}

\* a line longer than the column of the narrowest accepted width
LongText == Repeat("a", (MinWidth - ReservedChars) \div 2) \o <<"b">>

\* the line contents of the input files: empty, two one-character lines that
\* differ, and the long line
Texts == {<<>>, <<"a">>, <<"b">>, LongText}

\* what readlines() can return: every line but the last ends with a newline,
\* and a line without one is not empty
FileLines ==
    {f \in SeqsUpTo({t \o <<"LF">> : t \in Texts} \cup (Texts \ {<<>>}), MaxLines) :
        \A k \in 1..(Len(f) - 1) : f[k][Len(f[k])] = "LF"}

FileStates ==
    {[status |-> "missing"], [status |-> "undecodable"]}
    \cup {[status |-> "ok", lines |-> f] : f \in FileLines}

Printed(kind, pos, text) == [kind |-> kind, pos |-> pos, text |-> text]

NoCall == [fn |-> "none"]
NoRet == [done |-> FALSE]

Init ==
    /\ pc = "main"
    /\ width \in Widths
    /\ no_color \in BOOLEAN
    /\ fs \in [{1, 2} -> FileStates]
    /\ lines1 = <<>>
    /\ lines2 = <<>>
    /\ max_lines = 0
    /\ col_width = 0
    /\ diff_count = 0
    /\ i = 0
    /\ out = <<>>
    /\ exit_code = -1
    /\ exc = ""
    /\ aligned = {}
    /\ call = NoCall
    /\ ret = NoRet

\* main(), lines 214-219: validate the width, then enter compare_files
ValidateWidth ==
    /\ pc = "main"
    /\ IF width < MinWidth
       THEN /\ out' = Append(out, Printed("error", 0,
                         <<"Error: Width must be at least 40 characters.">>))
            /\ exit_code' = 1
            /\ pc' = "exit"
       ELSE /\ pc' = "read1"
            /\ UNCHANGED <<out, exit_code>>
    /\ UNCHANGED <<width, no_color, fs, lines1, lines2, max_lines, col_width,
                   diff_count, i, exc, aligned, call, ret>>

\* read_file_lines with both exceptions swallowed: an unreadable file reads as empty
read_file_lines_swallow(p) ==
    [ok |-> TRUE, lines |-> IF fs[p].status = "ok" THEN fs[p].lines ELSE <<>>,
     msg |-> <<>>]

\* read_file_lines(filename): the lines, or the message printed before sys.exit(1)
read_file_lines(p) ==
    CASE fs[p].status = "missing" ->
            [ok |-> FALSE, lines |-> <<>>,
             msg |-> <<"Error: File '">> \o file_path(p) \o <<"' not found.">>]
      [] fs[p].status = "undecodable" ->
            [ok |-> FALSE, lines |-> <<>>,
             msg |-> <<"Error: Could not decode '">> \o file_path(p) \o <<"' as UTF-8.">>]
      [] OTHER -> [ok |-> TRUE, lines |-> fs[p].lines, msg |-> <<>>]

\* compare_files, line 110
ReadFile1 ==
    /\ pc = "read1"
    /\ LET r == read_file_lines(1)
       IN IF r.ok
          THEN /\ lines1' = r.lines
               /\ pc' = "read2"
               /\ UNCHANGED <<out, exit_code>>
          ELSE /\ out' = Append(out, Printed("error", 0, r.msg))
               /\ exit_code' = 1
               /\ pc' = "exit"
               /\ UNCHANGED lines1
    /\ UNCHANGED <<width, no_color, fs, lines2, max_lines, col_width,
                   diff_count, i, exc, aligned, call, ret>>

\* compare_files, line 111
ReadFile2 ==
    /\ pc = "read2"
    /\ LET r == read_file_lines(2)
       IN IF r.ok
          THEN /\ lines2' = r.lines
               /\ pc' = "header"
               /\ UNCHANGED <<out, exit_code>>
          ELSE /\ out' = Append(out, Printed("error", 0, r.msg))
               /\ exit_code' = 1
               /\ pc' = "exit"
               /\ UNCHANGED lines2
    /\ UNCHANGED <<width, no_color, fs, lines1, max_lines, col_width,
                   diff_count, i, exc, aligned, call, ret>>

\* lst += [''] * (n - len(lst))
PadLines(lst, n) == lst \o Repeat(<<>>, n - Len(lst))

\* col_width = (width - 7) // 2
ColWidth(w) == (w - ReservedChars) \div 2

\* header1 / header2, lines 122-123
HeaderName(p, nc) ==
    IF nc THEN file_path(p) ELSE Colors["BOLD"] \o file_path(p) \o Colors["END"]

\* the header row, line 126
HeaderRow(cw, nc) ==
    Repeat(" ", 5) \o <<" ">> \o LJust(HeaderName(1, nc), cw)
    \o <<" ", "|", " ">> \o HeaderName(2, nc)

\* compare_files, lines 113-130: pad, column width, header frame
PrintHeader ==
    /\ pc = "header"
    /\ LET n == Max(Len(lines1), Len(lines2))
       IN /\ max_lines' = n
          /\ lines1' = PadLines(lines1, n)
          /\ lines2' = PadLines(lines2, n)
    /\ col_width' = ColWidth(width)
    /\ out' = out \o << Printed("frame", 0, Repeat("=", width)),
                        Printed("header", 0, HeaderRow(ColWidth(width), no_color)),
                        Printed("frame", 0, Repeat("=", width)) >>
    /\ diff_count' = 0
    /\ i' = 1
    /\ pc' = "loop"
    /\ UNCHANGED <<width, no_color, fs, exit_code, exc, aligned, call, ret>>

\* the rows of a differing position, lines 150-164
RowsDiffering(n, highlighted1, highlighted2, cw, nc) ==
    LET line_num_color == IF nc THEN <<>> ELSE Colors["YELLOW"]
        marker == IF nc THEN <<"*">> ELSE Colors["RED"] \o <<"*">> \o Colors["END"]
        w1 == wrap_line(highlighted1, cw)
        w2 == wrap_line(highlighted2, cw)
        max_wrapped == Max(Len(w1), Len(w2))
        wrapped1 == PadLines(w1, max_wrapped)
        wrapped2 == PadLines(w2, max_wrapped)
        line_num == line_num_color \o Format4d(n)
                    \o (IF nc THEN <<>> ELSE Colors["END"])
    IN [j \in 1..max_wrapped |->
          IF j = 1
          THEN Printed("row", n,
                   line_num \o marker \o <<" ">> \o LJust(wrapped1[j], cw)
                   \o <<" ", "|", " ">> \o wrapped2[j])
          ELSE Printed("cont", n,
                   Repeat(" ", 5) \o <<" ">> \o LJust(wrapped1[j], cw)
                   \o <<" ", "|", " ">> \o wrapped2[j])]

\* the rows of an identical position, lines 167-175
RowsIdentical(n, line, cw) ==
    LET wrapped == wrap_line(line, cw)
    IN [j \in 1..Len(wrapped) |->
          IF j = 1
          THEN Printed("row", n,
                   Format4d(n) \o <<" ">> \o <<" ">> \o LJust(wrapped[j], cw)
                   \o <<" ", "|", " ">> \o wrapped[j])
          ELSE Printed("cont", n,
                   Repeat(" ", 5) \o <<" ">> \o LJust(wrapped[j], cw)
                   \o <<" ", "|", " ">> \o wrapped[j])]

\* the test of line 136 taken as always true
LinesDifferAlways(line1, line2) == TRUE

\* the test of line 136
LinesDiffer(line1, line2) == line1 # line2

\* one iteration of the loop of lines 131-175
CompareLine ==
    /\ pc = "loop"
    /\ i <= max_lines
    /\ LET line1 == rstrip(lines1[i])
           line2 == rstrip(lines2[i])
       IN IF LinesDiffer(line1, line2)
          THEN /\ diff_count' = diff_count + 1
               /\ IF ~no_color
                  THEN LET h == highlight_char_differences(line1, line2)
                       IN /\ aligned' = aligned \cup {i}
                          /\ IF h.raised # ""
                             THEN /\ exc' = h.raised
                                  /\ exit_code' = 1
                                  /\ pc' = "exit"
                                  /\ UNCHANGED <<out, i>>
                             ELSE /\ out' = out \o RowsDiffering(i, h.out1, h.out2,
                                                                 col_width, no_color)
                                  /\ i' = i + 1
                                  /\ UNCHANGED <<exc, exit_code, pc>>
                  ELSE /\ out' = out \o RowsDiffering(i, line1, line2,
                                                      col_width, no_color)
                       /\ i' = i + 1
                       /\ UNCHANGED <<exc, exit_code, pc, aligned>>
          ELSE /\ out' = out \o RowsIdentical(i, line1, col_width)
               /\ i' = i + 1
               /\ UNCHANGED <<diff_count, exc, exit_code, pc, aligned>>
    /\ UNCHANGED <<width, no_color, fs, lines1, lines2, max_lines, col_width,
                   call, ret>>

\* the summary text, line 180
SummaryText(d, n) ==
    <<"Comparison complete: ">> \o Decimal(d) \o <<" differing lines out of ">>
    \o Decimal(n) \o <<" total lines">>

\* compare_files, lines 177-185: closing frame and summary
PrintSummary ==
    /\ pc = "loop"
    /\ i > max_lines
    /\ LET summary_color == IF diff_count = 0 THEN Colors["GREEN"] ELSE Colors["YELLOW"]
           summary == SummaryText(diff_count, max_lines)
       IN out' = out \o << Printed("frame", 0, Repeat("=", width)),
                           Printed("summary", 0,
                               IF ~no_color
                               THEN summary_color \o summary \o Colors["END"]
                               ELSE summary) >>
    /\ pc' = "legend"
    /\ UNCHANGED <<width, no_color, fs, lines1, lines2, max_lines, col_width,
                   diff_count, i, exit_code, exc, aligned, call, ret>>

\* compare_files, lines 187-191, and the return to the interpreter: line 189
\* evaluates Colors.BG_YELLOW, Colors.BLACK and Colors.END
PrintLegend ==
    /\ pc = "legend"
    /\ IF diff_count > 0 /\ ~no_color
       THEN IF HasColor("BG_YELLOW") /\ HasColor("BLACK") /\ HasColor("END")
            THEN /\ out' = out \o
                      << Printed("legend", 0, <<"LF", "Legend:">>),
                         Printed("legend", 0,
                             <<" ", " ">> \o Colors["BG_YELLOW"] \o Colors["BLACK"]
                             \o <<"Yellow background">> \o Colors["END"]
                             \o <<": Changed blocks of characters">>),
                         Printed("legend", 0,
                             <<" ", " ">> \o Colors["RED"] \o <<"*">> \o Colors["END"]
                             \o <<": Line number marker for differing lines">>),
                         Printed("legend", 0,
                             <<"  Continuation lines are indented without line numbers">>) >>
                 /\ exit_code' = 0
                 /\ UNCHANGED exc
            ELSE /\ out' = Append(out, Printed("legend", 0, <<"LF", "Legend:">>))
                 /\ exc' = "AttributeError"
                 /\ exit_code' = 1
       ELSE /\ exit_code' = 0
            /\ UNCHANGED <<out, exc>>
    /\ pc' = "exit"
    /\ UNCHANGED <<width, no_color, fs, lines1, lines2, max_lines, col_width,
                   diff_count, i, aligned, call, ret>>

Next ==
    \/ ValidateWidth
    \/ ReadFile1
    \/ ReadFile2
    \/ PrintHeader
    \/ CompareLine
    \/ PrintSummary
    \/ PrintLegend

Spec == Init /\ [][Next]_vars

(***************************************************************************)
(* SpecHL: highlight_char_differences applied to bounded strings           *)
(***************************************************************************)
Alphabet == {"a", "b", "c"}

Idle ==
    /\ pc = "idle"
    /\ width = 0
    /\ no_color = FALSE
    /\ fs = <<>>
    /\ lines1 = <<>>
    /\ lines2 = <<>>
    /\ max_lines = 0
    /\ col_width = 0
    /\ diff_count = 0
    /\ i = 0
    /\ out = <<>>
    /\ exit_code = -1
    /\ exc = ""
    /\ aligned = {}

InitHL ==
    /\ Idle
    /\ call \in [fn : {"highlight"},
                 line1 : SeqsUpTo(Alphabet, MaxStrLen),
                 line2 : SeqsUpTo(Alphabet, MaxStrLen)]
    /\ ret = NoRet

CallHighlight ==
    /\ call.fn = "highlight"
    /\ ~ret.done
    /\ ret' = [done |-> TRUE,
               val |-> highlight_char_differences(call.line1, call.line2)]
    /\ UNCHANGED <<mainVars, call>>

NextHL == CallHighlight

SpecHL == InitHL /\ [][NextHL]_vars

(***************************************************************************)
(* SpecWrap: wrap_line applied to bounded strings and widths               *)
(***************************************************************************)
\* a span rendered the way the replace branch styles text; Colors.BLACK
\* contributes nothing because the class has no such attribute
RenderSpan(sp) ==
    IF sp.style = "changed"
    THEN Colors["BG_YELLOW"] \o sp.text \o Colors["END"]
    ELSE sp.text

RECURSIVE RenderSpans(_)
RenderSpans(sps) ==
    IF sps = <<>> THEN <<>> ELSE RenderSpan(Head(sps)) \o RenderSpans(Tail(sps))

SpanSet == [text : SeqsUpTo({"a", "b"}, 2) \ {<<>>}, style : {"none", "changed"}]

\* raw text, which may hold stray or unterminated escape sequences
RawInputs == SeqsUpTo({"a", "ESC", "m"}, MaxRawLen)

InitWrap ==
    /\ Idle
    /\ \/ \E sps \in SeqsUpTo(SpanSet, MaxSpans), w \in 1..MaxWrapWidth :
             call = [fn |-> "wrap", line |-> RenderSpans(sps), width |-> w,
                     spans |-> sps]
       \/ \E raw \in RawInputs, w \in 1..MaxWrapWidth :
             call = [fn |-> "wrap", line |-> raw, width |-> w, spans |-> <<>>]
    /\ ret = NoRet

CallWrap ==
    /\ call.fn = "wrap"
    /\ ~ret.done
    /\ ret' = [done |-> TRUE, val |-> wrap_line(call.line, call.width)]
    /\ UNCHANGED <<mainVars, call>>

NextWrap == CallWrap

SpecWrap == InitWrap /\ [][NextWrap]_vars

(***************************************************************************)
(* Definitions used to state the properties                                *)
(***************************************************************************)
RECURSIVE AfterSequence(_)
\* what follows the control sequence whose ESC was just read
AfterSequence(s) ==
    IF s = <<>> THEN <<>>
    ELSE IF Head(s) \in AnsiTerminators THEN Tail(s)
    ELSE AfterSequence(Tail(s))

RECURSIVE StripAnsi(_)
\* the visible characters of s: s without its control sequences
StripAnsi(s) ==
    IF s = <<>> THEN <<>>
    ELSE IF Head(s) = "ESC" THEN StripAnsi(AfterSequence(Tail(s)))
    ELSE <<Head(s)>> \o StripAnsi(Tail(s))

\* the control sequence that starts at the head of s
SequenceAtHead(s) == SubSeq(s, 1, Len(s) - Len(AfterSequence(Tail(s))))

RECURSIVE HighlightFlags(_, _)
\* for each visible character of s, whether a style is open when a terminal
\* that starts in state open reaches it
HighlightFlags(s, open) ==
    IF s = <<>> THEN <<>>
    ELSE IF Head(s) = "ESC"
         THEN HighlightFlags(AfterSequence(Tail(s)),
                             SequenceAtHead(s) # Colors["END"])
         ELSE <<open>> \o HighlightFlags(Tail(s), open)

RECURSIVE EndsOpen(_, _)
\* whether a style is still open after s
EndsOpen(s, open) ==
    IF s = <<>> THEN open
    ELSE IF Head(s) = "ESC"
         THEN EndsOpen(AfterSequence(Tail(s)), SequenceAtHead(s) # Colors["END"])
         ELSE EndsOpen(Tail(s), open)

RECURSIVE EndsInsideSequence(_)
\* whether s ends in the middle of a control sequence
EndsInsideSequence(s) ==
    IF s = <<>> THEN FALSE
    ELSE IF Head(s) = "ESC"
         THEN (\A k \in 2..Len(s) : s[k] \notin AnsiTerminators)
              \/ EndsInsideSequence(AfterSequence(Tail(s)))
         ELSE EndsInsideSequence(Tail(s))

\* number of occurrences of character c in s
Count(s, c) == Cardinality({k \in 1..Len(s) : s[k] = c})

HasReplace(ops) == \E k \in 1..Len(ops) : ops[k].tag = "replace"

\* a line as read from the file, without its line terminator
WithoutNewline(s) ==
    IF s # <<>> /\ s[Len(s)] = "LF" THEN SubSeq(s, 1, Len(s) - 1) ELSE s

Readable == fs[1].status = "ok" /\ fs[2].status = "ok"

\* the number of positions, and the text at position k of file p (empty
\* beyond the end of the file)
NumPositions == Max(Len(fs[1].lines), Len(fs[2].lines))
TextAt(p, k) ==
    IF k <= Len(fs[p].lines) THEN WithoutNewline(fs[p].lines[k]) ELSE <<>>
DiffPositions == {k \in 1..NumPositions : TextAt(1, k) # TextAt(2, k)}

\* what was printed for line position k
RowsAt(k) == SelectSeq(out, LAMBDA e : e.pos = k /\ e.kind \in {"row", "cont"})
RowTexts(es) == [k \in 1..Len(es) |-> es[k].text]
Stripped(es) == [k \in 1..Len(es) |-> StripAnsi(es[k].text)]
Printedkinds == {out[k].kind : k \in 1..Len(out)}

\* the fields of a printed row: 4 characters of line number, the marker,
\* a blank, the left column, the separator, the right column
MarkerField(text) == text[5]
LeftField(text, cw) == SubSeq(text, 7, 6 + cw)
RightField(text, cw) == SubSeq(text, 10 + cw, Len(text))

(***************************************************************************)
(* Properties of highlight_char_differences (SpecHL)                       *)
(***************************************************************************)
\* C1: highlight_char_differences(L, R) returns a pair whose first member
\* without its control sequences is exactly L and whose second is exactly R.
C1_Reconstructs ==
    ret.done =>
        /\ ret.val.raised = ""
        /\ StripAnsi(ret.val.out1) = call.line1
        /\ StripAnsi(ret.val.out2) = call.line2

\* C2: highlight_char_differences returns normally for every pair of
\* strings, whatever opcodes their alignment holds.
C2_NeverRaises == ret.done => ret.val.raised = ""

\* C10: replace opcodes, and only they, produce highlighted text, on both
\* sides: each side of the result carries one style-start and one style-end
\* sequence per replace opcode and none otherwise.
C10_OnlyReplaceHighlighted ==
    ret.done =>
        LET ops == get_opcodes(call.line1, call.line2)
            nrep == Cardinality({k \in 1..Len(ops) : ops[k].tag = "replace"})
        IN /\ ret.val.raised = ""
           /\ Count(ret.val.out1, "ESC") = 2 * nrep
           /\ Count(ret.val.out2, "ESC") = 2 * nrep

(***************************************************************************)
(* Properties of wrap_line (SpecWrap)                                      *)
(***************************************************************************)
\* C3: wrap_line returns at least one physical line, every physical line has
\* at most width visible characters, and an empty input gives exactly one
\* empty physical line.
C3_WrapBounded ==
    ret.done =>
        /\ Len(ret.val) >= 1
        /\ \A k \in 1..Len(ret.val) : Len(StripAnsi(ret.val[k])) <= call.width
        /\ call.line = <<>> => ret.val = << <<>> >>

C3_Witness ==
    /\ ret.done
    /\ Len(ret.val) >= 2
    /\ \E k \in 1..Len(ret.val) :
          /\ Len(StripAnsi(ret.val[k])) = call.width
          /\ Count(ret.val[k], "ESC") > 0

\* C4: the visible characters of the physical lines, concatenated in order,
\* are exactly the visible characters of the input, and no control sequence
\* is split between two physical lines.
C4_WrapPreserves ==
    ret.done =>
        /\ Concat([k \in 1..Len(ret.val) |-> StripAnsi(ret.val[k])])
              = StripAnsi(call.line)
        /\ Concat(ret.val) = call.line
        /\ \A k \in 1..(Len(ret.val) - 1) : ~EndsInsideSequence(ret.val[k])

C4_Witness ==
    /\ ret.done
    /\ Len(ret.val) >= 3
    /\ Count(call.line, "ESC") >= 2
    /\ Len(StripAnsi(call.line)) >= 3

\* C5: when the input is rendered spans, every physical line is valid on its
\* own: no physical line ends with a style open, and read from a reset
\* terminal each physical line highlights exactly the characters the input
\* highlights.
C5_StyleClosedPerLine ==
    (ret.done /\ call.spans # <<>>) =>
        /\ \A k \in 1..Len(ret.val) : ~EndsOpen(ret.val[k], FALSE)
        /\ Concat([k \in 1..Len(ret.val) |-> HighlightFlags(ret.val[k], FALSE)])
              = HighlightFlags(call.line, FALSE)

C7_ErrorsBeforeOutput ==
    /\ "error" \in Printedkinds =>
          Len(out) = 1 /\ pc = "exit" /\ exit_code = 1
    /\ (pc = "exit" /\ (width < MinWidth \/ ~Readable)) =>
          Len(out) = 1 /\ out[1].kind = "error" /\ exit_code = 1 /\ exc = ""
    /\ (pc = "exit" /\ width = MinWidth - 1) =>
          out[1].text = <<"Error: Width must be at least 40 characters.">>
    /\ (pc = "exit" /\ width >= MinWidth /\ Readable) =>
          Len(out) >= 3 /\ out[2].kind = "header"

C7_Witness ==
    /\ pc = "exit"
    /\ width = MinWidth
    /\ fs[1].status = "ok"
    /\ fs[1].lines # <<>>
    /\ fs[2].status = "undecodable"
    /\ Len(out) = 1
    /\ out[1].kind = "error"

\* C8: with color enabled, the header row and the rows of every position
\* the pass has reached are, once their control sequences are deleted,
\* exactly the rows printed with color disabled.
C8_NoColorSameLayout ==
    (~no_color /\ pc \in {"loop", "legend", "exit"} /\ "header" \in Printedkinds) =>
        /\ StripAnsi(out[2].text) = HeaderRow(col_width, TRUE)
        /\ \A k \in 1..max_lines :
              (k < i \/ pc = "exit") =>
                  Stripped(RowsAt(k)) =
                      RowTexts(IF TextAt(1, k) # TextAt(2, k)
                            THEN RowsDiffering(k, TextAt(1, k), TextAt(2, k),
                                               col_width, TRUE)
                            ELSE RowsIdentical(k, TextAt(1, k), col_width))

\* C9: at a position whose two lines are equal the aligner is not invoked,
\* the position is not counted, no row of it carries a marker or a control
\* sequence, and both columns show the line.
C9_EqualLinesUntouched ==
    (pc \in {"loop", "legend", "exit"} /\ "header" \in Printedkinds) =>
        /\ diff_count <= Cardinality({k \in DiffPositions : k <= i})
        /\ \A k \in 1..max_lines :
              (k < i /\ TextAt(1, k) = TextAt(2, k)) =>
                  LET rows == RowTexts(RowsAt(k))
                  IN /\ k \notin aligned
                     /\ rows # <<>>
                     /\ \A j \in 1..Len(rows) :
                           /\ MarkerField(rows[j]) = " "
                           /\ Count(rows[j], "ESC") = 0
                           /\ LeftField(rows[j], col_width)
                                 = LJust(RightField(rows[j], col_width), col_width)
                     /\ Concat([j \in 1..Len(rows) |->
                                   RightField(rows[j], col_width)]) = TextAt(1, k)

C9_Witness ==
    /\ pc = "legend"
    /\ ~no_color
    /\ max_lines = 2
    /\ TextAt(1, 1) = LongText
    /\ TextAt(2, 1) = LongText
    /\ Len(RowsAt(1)) = 2
    /\ diff_count = 1
    /\ aligned = {2}

====
